---- MODULE Spec2Model ----
(***************************************************************************)
(* A model of openclaw-watcher.py: extraction of exec / thinking / web /   *)
(* fetch / file events from JSONL agent logs.                              *)
(*                                                                         *)
(* Text is a sequence of chunks.  The whitespace characters are chunks of  *)
(* their own ("SP", "LF", "CR"); every other chunk is a run of characters  *)
(* that are neither whitespace nor line breaks.  A JSON value is a record  *)
(* [k |-> kind, v |-> content]; Python's None and JSON null coincide.      *)
(* Colour is not modelled: rendering is that of USE_COLOR = False.         *)
(***************************************************************************)
EXTENDS Integers, Sequences, FiniteSets, TLC

(* ------------------------------ bounds ------------------------------ *)
\* MaxArgs: positional tokens on the command line; MaxLines: lines read in a
\* run, over all sources; MaxLast: the largest --last; MaxItems: content
\* items of a record.
MaxArgs == 3
MaxLines == 2
MaxLast == 2
MaxItems == 2

(* ------------------------------- text ------------------------------- *)
WS == {"SP", "LF", "CR"}

RECURSIVE LStrip(_)
LStrip(t) ==
    IF t # <<>> /\ Head(t) \in WS THEN LStrip(Tail(t)) ELSE t

RECURSIVE RStrip(_)
RStrip(t) ==
    IF t # <<>> /\ t[Len(t)] \in WS THEN RStrip(SubSeq(t, 1, Len(t) - 1)) ELSE t

\* str.strip()
Strip(t) == RStrip(LStrip(t))

\* t.replace("\r\n", "\n")
RECURSIVE ReplaceCRLF(_)
ReplaceCRLF(t) ==
    IF t = <<>> THEN <<>>
    ELSE IF Len(t) >= 2 /\ t[1] = "CR" /\ t[2] = "LF"
         THEN <<"LF">> \o ReplaceCRLF(SubSeq(t, 3, Len(t)))
         ELSE <<Head(t)>> \o ReplaceCRLF(Tail(t))

\* t.replace(a, b) for chunks a, b
ReplaceChunk(t, a, b) == [i \in 1..Len(t) |-> IF t[i] = a THEN b ELSE t[i]]

\* t.replace("\r\n", "\n").replace("\r", "\n").replace("\n", "\\n")
EscapeNewlines(t) ==
    ReplaceChunk(ReplaceChunk(ReplaceCRLF(t), "CR", "LF"), "LF", "\\n")

(* ---------------------------- JSON values --------------------------- *)
None == [k |-> "null", v |-> <<>>]
JStr(t) == [k |-> "str", v |-> t]
JNum(n) == [k |-> "num", v |-> n]
JBool(b) == [k |-> "bool", v |-> b]
JArr(s) == [k |-> "arr", v |-> s]
JObj(f) == [k |-> "obj", v |-> f]
EmptyObj == JObj(<<>>)

\* isinstance(x, dict), isinstance(x, list), isinstance(x, str)
IsDict(x) == x.k = "obj"
IsList(x) == x.k = "arr"
IsStr(x) == x.k = "str"

\* d.get(key) on a dict
Get(d, key) == IF key \in DOMAIN d.v THEN d.v[key] ELSE None

\* bool(x)
Truthy(x) ==
    CASE x.k = "null" -> FALSE
      [] x.k = "str" -> x.v # <<>>
      [] x.k = "num" -> x.v # 0
      [] x.k = "bool" -> x.v
      [] x.k = "arr" -> x.v # <<>>
      [] x.k = "obj" -> DOMAIN x.v # {}

\* hash(x) is defined: lists and dicts are unhashable
Hashable(x) == x.k \notin {"arr", "obj"}

\* str(x); a number or a container is rendered as one chunk
PyStr(x) ==
    CASE x.k = "null" -> <<"None">>
      [] x.k = "str" -> x.v
      [] x.k = "num" -> <<ToString(x.v)>>
      [] x.k = "bool" -> IF x.v THEN <<"True">> ELSE <<"False">>
      [] x.k = "arr" -> IF x.v = <<>> THEN <<"[]">> ELSE <<"[..]">>
      [] x.k = "obj" -> IF DOMAIN x.v = {} THEN <<"{}">> ELSE <<"{..}">>

RECURSIVE _safe_get(_, _)
_safe_get(d, keys) ==
    IF keys = <<>> THEN d
    ELSE IF ~IsDict(d) \/ Head(keys) \notin DOMAIN d.v THEN None
         ELSE _safe_get(d.v[Head(keys)], Tail(keys))

UNKNOWN_TIME == JStr(<<"UNKNOWN_TIME">>)
UNKNOWN_PATH == <<"UNKNOWN_PATH">>

\* _get_timestamp with message.timestamp taking precedence over timestamp
_get_timestamp_nestedFirst(obj) ==
    LET ts0 == Get(obj, "timestamp")
        ts_val == _safe_get(obj, <<"message", "timestamp">>)
        ts == IF ts_val # None THEN JStr(PyStr(ts_val)) ELSE ts0
    IN  IF Truthy(ts) THEN ts ELSE UNKNOWN_TIME

_get_timestamp(obj) ==
    LET ts0 == Get(obj, "timestamp")
        ts_val == _safe_get(obj, <<"message", "timestamp">>)
        ts == IF ~Truthy(ts0) /\ ts_val # None THEN JStr(PyStr(ts_val)) ELSE ts0
    IN  IF Truthy(ts) THEN ts ELSE UNKNOWN_TIME

\* the list, or None
_message_content(obj) ==
    LET content == _safe_get(obj, <<"message", "content">>)
    IN  IF IsList(content) THEN content ELSE None

(* ----------------------------- the rules ---------------------------- *)
S(c) == JStr(<<c>>)

\* The loop over content shared by the rules: matches[i] is the sequence of
\* tuples the loop body appends for item i.  Each tuple also carries the
\* item's position in message.content (a history field, not program data).
Loop(matches) ==
    LET F[i \in 0..Len(matches)] ==
            IF i = 0 THEN <<>> ELSE F[i - 1] \o matches[i]
    IN  F[Len(matches)]

\* A toolCall item named name with a non-blank string at arguments.key
ToolArg(ts, name, key, item, i) ==
    IF ~IsDict(item) THEN <<>>
    ELSE IF Get(item, "type") # S("toolCall") THEN <<>>
    ELSE IF Get(item, "name") # S(name) THEN <<>>
    ELSE LET arg == _safe_get(item, <<"arguments", key>>)
         IN  IF IsStr(arg) /\ Strip(arg.v) # <<>>
             THEN <<[ts |-> ts, payload |-> Strip(arg.v), item |-> i]>>
             ELSE <<>>

_extract_execs(obj) ==
    IF Get(obj, "type") # S("message") THEN <<>>
    ELSE LET ts == _get_timestamp(obj)
             content == _message_content(obj)
             Match(item, i) == ToolArg(ts, "exec", "command", item, i)
         IN  IF content = None THEN <<>>
             ELSE Loop([i \in 1..Len(content.v) |-> Match(content.v[i], i)])

_extract_thinking(obj) ==
    IF Get(obj, "type") # S("message") THEN <<>>
    ELSE LET ts == _get_timestamp(obj)
             content == _message_content(obj)
             Match(item, i) ==
                 IF ~IsDict(item) THEN <<>>
                 ELSE IF Get(item, "type") # S("thinking") THEN <<>>
                 ELSE LET thinking == Get(item, "thinking")
                      IN  IF IsStr(thinking) /\ Strip(thinking.v) # <<>>
                          THEN <<[ts |-> ts, payload |-> Strip(thinking.v), item |-> i]>>
                          ELSE <<>>
         IN  IF content = None THEN <<>>
             ELSE Loop([i \in 1..Len(content.v) |-> Match(content.v[i], i)])

_extract_web_searches(obj) ==
    IF Get(obj, "type") # S("message") THEN <<>>
    ELSE LET ts == _get_timestamp(obj)
             content == _message_content(obj)
             Match(item, i) == ToolArg(ts, "web_search", "query", item, i)
         IN  IF content = None THEN <<>>
             ELSE Loop([i \in 1..Len(content.v) |-> Match(content.v[i], i)])

_extract_web_fetches(obj) ==
    IF Get(obj, "type") # S("message") THEN <<>>
    ELSE LET ts == _get_timestamp(obj)
             content == _message_content(obj)
             Match(item, i) == ToolArg(ts, "web_fetch", "url", item, i)
         IN  IF content = None THEN <<>>
             ELSE Loop([i \in 1..Len(content.v) |-> Match(content.v[i], i)])

FileActions == {S("read"), S("write"), S("edit")}
PathKeys == <<"path", "file_path", "filepath", "filename", "target">>

\* a.get(k1) or a.get(k2) or ... : the first truthy value, else the last one
RECURSIVE OrChain(_, _)
OrChain(args, keys) ==
    IF Len(keys) = 1 \/ Truthy(Get(args, Head(keys)))
    THEN Get(args, Head(keys))
    ELSE OrChain(args, Tail(keys))

\* The item reaches `action not in {"read", "write", "edit"}` with a name
\* that cannot be hashed: the membership test raises TypeError.
FileItemRaises(item) ==
    /\ IsDict(item)
    /\ Get(item, "type") = S("toolCall")
    /\ ~Hashable(Get(item, "name"))

FileItemMatch(ts, item, i) ==
    IF ~IsDict(item) THEN <<>>
    ELSE IF Get(item, "type") # S("toolCall") THEN <<>>
    ELSE LET action == Get(item, "name")
         IN  IF action \notin FileActions THEN <<>>
             ELSE LET args == IF IsDict(Get(item, "arguments"))
                              THEN Get(item, "arguments") ELSE EmptyObj
                      path == OrChain(args, PathKeys)
                  IN  IF IsStr(path) /\ Strip(path.v) # <<>>
                      THEN <<[ts |-> ts, action |-> action.v[1],
                              payload |-> Strip(path.v), item |-> i]>>
                      ELSE <<[ts |-> ts, action |-> action.v[1],
                              payload |-> UNKNOWN_PATH, item |-> i]>>

\* [raised |-> the call ends in an uncaught TypeError, out |-> its result]
_extract_file_events(obj) ==
    IF Get(obj, "type") # S("message") THEN [raised |-> FALSE, out |-> <<>>]
    ELSE LET ts == _get_timestamp(obj)
             content == _message_content(obj)
             Match(item, i) == FileItemMatch(ts, item, i)
         IN  IF content = None THEN [raised |-> FALSE, out |-> <<>>]
             ELSE IF \E i \in 1..Len(content.v) : FileItemRaises(content.v[i])
                  THEN [raised |-> TRUE, out |-> <<>>]
                  ELSE [raised |-> FALSE,
                        out |-> Loop([i \in 1..Len(content.v) |-> Match(content.v[i], i)])]

(* ------------------ main: the body of the line loop ----------------- *)
Modes == {"exec", "thinking", "web", "fetch", "file"}
RuleRank == [exec |-> 1, thinking |-> 2, web |-> 3, fetch |-> 4, file |-> 5]

Tag(evs, label, rule) ==
    [j \in 1..Len(evs) |->
        [ts |-> evs[j].ts, label |-> label, payload |-> evs[j].payload,
         rule |-> rule, item |-> evs[j].item]]

ExecLines(obj, modes) ==
    IF "exec" \in modes THEN Tag(_extract_execs(obj), "exec", "exec") ELSE <<>>

ThinkingLines(obj, modes, keep) ==
    IF "thinking" \in modes
    THEN LET evs == _extract_thinking(obj)
         IN  [j \in 1..Len(evs) |->
                [ts |-> evs[j].ts, label |-> "thinking",
                 payload |-> IF keep THEN evs[j].payload
                             ELSE EscapeNewlines(evs[j].payload),
                 rule |-> "thinking", item |-> evs[j].item]]
    ELSE <<>>

WebLines(obj, modes) ==
    IF "web" \in modes THEN Tag(_extract_web_searches(obj), "web", "web") ELSE <<>>

FetchLines(obj, modes) ==
    IF "fetch" \in modes THEN Tag(_extract_web_fetches(obj), "fetch", "fetch") ELSE <<>>

FileLines(obj, modes) ==
    IF "file" \in modes
    THEN LET evs == _extract_file_events(obj).out
         IN  [j \in 1..Len(evs) |->
                [ts |-> evs[j].ts, label |-> evs[j].action,
                 payload |-> evs[j].payload, rule |-> "file", item |-> evs[j].item]]
    ELSE <<>>

\* the rule blocks with thinking ahead of exec
ProcessObject_thinkingFirst(obj, modes, keep) ==
    LET before == ThinkingLines(obj, modes, keep) \o ExecLines(obj, modes)
                    \o WebLines(obj, modes) \o FetchLines(obj, modes)
        raised == "file" \in modes /\ _extract_file_events(obj).raised
    IN  [raised |-> raised,
         lines |-> IF raised THEN before ELSE before \o FileLines(obj, modes)]

\* Lines 354-373 for one parsed object: what is appended to output_lines,
\* and whether the file rule raised (the earlier rules have appended by then).
ProcessObject(obj, modes, keep) ==
    LET before == ExecLines(obj, modes) \o ThinkingLines(obj, modes, keep)
                    \o WebLines(obj, modes) \o FetchLines(obj, modes)
        raised == "file" \in modes /\ _extract_file_events(obj).raised
    IN  [raised |-> raised,
         lines |-> IF raised THEN before ELSE before \o FileLines(obj, modes)]

\* f"{_c_ts(ts)}\t{_c_label(label)}\t{payload}" without colour
Format(e) ==
    [kind |-> "event", ts |-> PyStr(e.ts), label |-> e.label, payload |-> e.payload]

\* the history of an appended line: <<source, line, rule rank, content item>>
Origin(e, p, l) == <<p, l, RuleRank[e.rule], e.item>>

FormatAll(lines) == [j \in 1..Len(lines) |-> Format(lines[j])]
OriginAll(lines, p, l) == [j \in 1..Len(lines) |-> Origin(lines[j], p, l)]

\* s[-n:] for n > 0
LastN(s, n) == IF n >= Len(s) THEN s ELSE SubSeq(s, Len(s) - n + 1, Len(s))

\* output_lines[:last] in place of output_lines[-last:]
Truncate_firstN(lines, last) ==
    IF last # 0 /\ last > 0 /\ last < Len(lines) THEN SubSeq(lines, 1, last) ELSE lines

\* lines 375-376
Truncate(lines, last) == IF last # 0 /\ last > 0 THEN LastN(lines, last) ELSE lines

(* --------------------------- the inputs ----------------------------- *)
T(c) == <<c>>
Item(type, name, arguments) ==
    JObj([type |-> S(type), name |-> S(name), arguments |-> JObj(arguments)])
Thinking(t) == JObj([type |-> S("thinking"), thinking |-> JStr(t)])
Message(ts, content) ==
    JObj([type |-> S("message"), timestamp |-> ts, message |-> JObj([content |-> JArr(content)])])

\* Lines of a session file: blank; text on which json.loads raises
\* JSONDecodeError; text on which it raises another exception (RecursionError
\* on brackets nested too deep, ValueError on an integer of more digits than
\* the interpreter converts); JSON that is no object; objects.
Blank == [kind |-> "blank", val |-> None]
Malformed == [kind |-> "malformed", val |-> None]
Unparsable == [kind |-> "unparsable", val |-> None]
Parsed(v) == [kind |-> "json", val |-> v]

RunRecords ==
    { Message(S("T1"), <<Thinking(<<"a", "LF", "b">>),
                         Item("toolCall", "exec", [command |-> JStr(<<"ls">>)])>>),
      Message(S("T2"), <<Item("toolCall", "read", [path |-> JStr(<<"f">>)]),
                         Item("toolCall", "web_fetch", [url |-> JStr(<<"u">>)]),
                         Item("toolCall", "web_search", [query |-> JStr(<<"q">>)])>>),
      Message(S("T3"), <<JObj([type |-> S("toolCall"), name |-> JArr(<<S("read")>>)])>>) }

RunLines == {Blank, Malformed, Unparsable, Parsed(JArr(<<>>))} \cup {Parsed(r) : r \in RunRecords}

SeqsUpTo(set, n) == UNION {[1..m -> set] : m \in 0..n}

(* -------------- records for the rules taken on their own ----------- *)
Absent == [k |-> "absent", v |-> <<>>]
With(f, key, val) == [x \in (DOMAIN f) \cup {key} |-> IF x = key THEN val ELSE f[x]]
Maybe(f, key, val) == IF val = Absent THEN f ELSE With(f, key, val)
Fields(keys, vals) ==
    LET F[i \in 0..Len(keys)] ==
            IF i = 0 THEN <<>> ELSE Maybe(F[i - 1], keys[i], vals[i])
    IN  F[Len(keys)]

\* values of a timestamp field
TsValues ==
    {Absent, None, JStr(<<>>), S("T1"), S("T2"), JNum(0), JNum(7),
     JBool(FALSE), JBool(TRUE), JArr(<<>>)}

\* every pair of timestamps over one thinking item
TsRecords ==
    { JObj(Fields(<<"type", "timestamp", "message">>,
                  <<S("message"), top,
                    JObj(Fields(<<"timestamp", "content">>,
                                <<nested, JArr(<<Thinking(<<"a">>)>>)>>))>>)) :
        top \in TsValues, nested \in TsValues }

\* values of a string field: absent, of another type, empty, blank, padded,
\* with a line break inside
ArgValues ==
    {Absent, JNum(1), JStr(<<>>), JStr(<<"SP", "LF">>), JStr(<<"SP", "x", "SP">>),
     JStr(<<"a", "CR", "LF", "b", "CR", "c">>)}

\* values of `arguments` for the file rule: every choice of the five fields
\* among absent, a number, blank and padded
PathValues == {Absent, JNum(1), JStr(<<"SP">>)}
PathArgs ==
    { Fields(PathKeys, <<a, S("b"), c, d, e>>) : a \in PathValues, c \in {Absent},
                                                   d \in {Absent, S("d")}, e \in {Absent} }
      \cup { Fields(PathKeys, <<a, b, c, d, e>>) :
               a \in {Absent, JStr(<<>>)}, b \in {Absent, None},
               c \in {Absent, S("c")}, d \in {Absent}, e \in {Absent, JStr(<<"SP", "e", "SP">>)} }

ExtractItems ==
    {S("x"), None, EmptyObj, JObj([type |-> JNum(1)]),
     JObj([type |-> S("toolCall")]),
     JObj([type |-> S("toolCall"), name |-> JNum(1)]),
     JObj([type |-> S("toolCall"), name |-> JArr(<<S("read")>>)]),
     JObj([type |-> S("toolCall"), name |-> EmptyObj]),
     JObj([type |-> S("toolCall"), name |-> S("exec"), arguments |-> S("x")]),
     JObj([type |-> S("toolCall"), name |-> S("read"), arguments |-> S("x")]),
     JObj([type |-> S("toolCall"), name |-> S("edit")]),
     Item("toolCall", "web_search", [query |-> JStr(<<"q", "SP">>)]),
     Item("toolCall", "web_fetch", [url |-> JStr(<<"u">>)]),
     Item("toolCall", "write", [file_path |-> S("a"), filename |-> S("b")]),
     Item("thinking", "exec", [command |-> JStr(<<"ls">>)])}
      \cup { JObj(Fields(<<"type", "thinking">>, <<S("thinking"), v>>)) :
               v \in {Absent, JStr(<<"SP", "x", "LF", "y", "SP">>)} }
      \cup { JObj([type |-> S("toolCall"), name |-> S("exec"),
                   arguments |-> JObj(Fields(<<"command">>, <<v>>))]) :
               v \in {Absent, JStr(<<"ls">>)} }

\* one item with every value of its string field
FieldItems ==
    { JObj(Fields(<<"type", "thinking">>, <<S("thinking"), v>>)) : v \in ArgValues }
      \cup { JObj([type |-> S("toolCall"), name |-> S(n[1]),
                   arguments |-> JObj(Fields(<<n[2]>>, <<v>>))]) :
               n \in {<<"exec", "command">>, <<"web_search", "query">>,
                      <<"web_fetch", "url">>}, v \in ArgValues }
      \cup { JObj([type |-> S("toolCall"), name |-> S(n), arguments |-> JObj(a)]) :
               n \in {"read", "write", "edit"}, a \in PathArgs }

\* records whose type, message or content has another shape
ShapeRecords ==
    { JObj(Fields(<<"type", "timestamp", "message">>, <<t, S("T1"), m>>)) :
        t \in {Absent, None, JNum(1), S("other"), S("message")},
        m \in {Absent, None, S("x"), JArr(<<>>), EmptyObj,
               JObj([content |-> None]), JObj([content |-> S("x")]),
               JObj([content |-> EmptyObj]),
               JObj([content |-> JArr(<<Thinking(<<"a">>)>>)])} }

ContentRecords ==
    { Message(S("T1"), c) : c \in SeqsUpTo(ExtractItems, MaxItems) }
      \cup { Message(S("T1"), <<i>>) : i \in FieldItems }

ExtractRecords == TsRecords \cup ShapeRecords \cup ContentRecords

\* positional command-line tokens: mode names, an unknown word, paths
ModeTokens == Modes \cup {"all"}
PathTokens == {"A", "-"}
Tokens == ModeTokens \cup {"foo"} \cup PathTokens

\* The command line: pos1 is the positional tokens before the first option
\* that follows a positional, pos2 the positional tokens after it.
Options == [errors : {"stderr", "ignore"}, keep_newlines : BOOLEAN, last : (0 - 1)..MaxLast]

DefaultOptions == [errors |-> "stderr", keep_newlines |-> FALSE, last |-> 0]

\* every command line of at most MaxArgs positional tokens with the default
\* options, and every choice of options for `all` and for `all <option> A`
CommandLines ==
    { cl \in [pos1 : SeqsUpTo(Tokens, MaxArgs), pos2 : SeqsUpTo(PathTokens, MaxArgs),
              opt : {DefaultOptions}] : Len(cl.pos1) + Len(cl.pos2) <= MaxArgs }
      \cup [pos1 : {<<"all">>}, pos2 : {<<>>, <<"A">>}, opt : Options]

\* ~/.openclaw/agents/main/sessions/sessions.json: absent, not JSON, or JSON
SessionFile(v) == JObj([sessionFile |-> v])
MainKey == "agent:main:main"
SessionsJson ==
    { [kind |-> "missing", val |-> None],
      [kind |-> "malformed", val |-> None],
      Parsed(JArr(<<>>)),
      Parsed(EmptyObj),
      Parsed(JObj([x \in {MainKey} |-> S("A")])),
      Parsed(JObj([x \in {MainKey} |-> EmptyObj])),
      Parsed(JObj([x \in {MainKey} |-> SessionFile(JNum(1))])),
      Parsed(JObj([x \in {MainKey} |-> SessionFile(JStr(<<"SP">>))])),
      Parsed(JObj([x \in {MainKey} |-> SessionFile(JStr(<<"SP", "A", "LF">>))])) }

Unread == [kind |-> "unread", val |-> None]

(* ----------------------------- the state ---------------------------- *)
VARIABLES
    pc,            \* "start", "read", "eval", "done"
    cmdline,       \* the command line
    late,          \* argparse binds a positional after an option to `paths`
    sessions,      \* sessions.json as read by the autodetection, or Unread
    modes,         \* the active mode set
    paths,         \* the input paths, as text
    pi,            \* the position in paths of the current source
    opened,        \* the current source has been opened
    nread,         \* lines read so far, over all sources
    stdinEOF,      \* standard input has been read to its end
    cur,           \* the line read last
    output_lines,  \* the formatted lines collected
    origin,        \* the history of each collected line
    stdout,
    stderr,
    exitCode       \* -1 while the process runs

vars == <<pc, cmdline, late, sessions, modes, paths, pi, opened, nread, stdinEOF,
          cur, output_lines, origin, stdout, stderr, exitCode>>

Running == 0 - 1

Init ==
    /\ pc = "start"
    /\ cmdline \in CommandLines
    /\ late \in BOOLEAN
    /\ sessions = Unread
    /\ modes = {}
    /\ paths = <<>>
    /\ pi = 1
    /\ opened = FALSE
    /\ nread = 0
    /\ stdinEOF = FALSE
    /\ cur = Blank
    /\ output_lines = <<>>
    /\ origin = <<>>
    /\ stdout = <<>>
    /\ stderr = <<>>
    /\ exitCode = Running

Msg(tag, text) == [tag |-> tag, text |-> text]

\* the process ends with code `code` after writing `msg` to stderr
Exit(code, msg) ==
    /\ pc' = "done"
    /\ exitCode' = code
    /\ stderr' = Append(stderr, msg)

(* ------------------------- argument parsing ------------------------- *)
\* ap.parse_args() for the positionals modes (nargs="+") and paths
\* (nargs="*"): modes takes every positional of the first run of
\* positionals.  Positionals that follow an option go to paths where
\* argparse binds late, and are "unrecognized arguments" where it does not.
ParsedModes(cl) == cl.pos1
ParsedPaths(cl, lt) == IF lt THEN cl.pos2 ELSE <<>>
UsageError(cl, lt) == cl.pos1 = <<>> \/ (cl.pos2 # <<>> /\ ~lt)

Range(s) == {s[i] : i \in DOMAIN s}

\* lines 309-323
Unknown(ms) == ms \ (Modes \cup {"all"})
ExpandAll(ms) == IF "all" \in ms THEN (ms \cup Modes) \ {"all"} ELSE ms

\* _autodetect_session_file() on the file content js:
\* [result |-> "ok" | "RuntimeError" | "AttributeError", path |-> text]
_autodetect_session_file(js) ==
    IF js.kind \in {"missing", "malformed"}
    THEN [result |-> "RuntimeError", path |-> <<>>]
    ELSE IF ~IsDict(js.val)
    THEN [result |-> "AttributeError", path |-> <<>>]
    ELSE LET main == Get(js.val, MainKey)
         IN  IF ~IsDict(main) THEN [result |-> "RuntimeError", path |-> <<>>]
             ELSE LET session_file == Get(main, "sessionFile")
                  IN  IF ~IsStr(session_file) \/ Strip(session_file.v) = <<>>
                      THEN [result |-> "RuntimeError", path |-> <<>>]
                      ELSE [result |-> "ok", path |-> Strip(session_file.v)]

\* lines 307-336
ParseArgs ==
    /\ pc = "start"
    /\ UNCHANGED <<cmdline, late, pi, opened, nread, stdinEOF, cur,
                   output_lines, origin, stdout>>
    /\ IF UsageError(cmdline, late)
       THEN /\ Exit(2, Msg("usage", <<>>))
            /\ UNCHANGED <<sessions, modes, paths>>
       ELSE LET ms == Range(ParsedModes(cmdline))
                ps == ParsedPaths(cmdline, late)
            IN  IF Unknown(ms) # {}
                THEN /\ Exit(2, Msg("[error]", <<"Unknown mode(s)">>))
                     /\ UNCHANGED <<sessions, modes, paths>>
                ELSE /\ modes' = ExpandAll(ms)
                     /\ IF ps # <<>>
                        THEN /\ paths' = [i \in 1..Len(ps) |-> T(ps[i])]
                             /\ pc' = "read"
                             /\ UNCHANGED <<sessions, stderr, exitCode>>
                        ELSE \E js \in SessionsJson :
                               LET r == _autodetect_session_file(js)
                               IN  /\ sessions' = js
                                   /\ CASE r.result = "ok" ->
                                             /\ paths' = <<r.path>>
                                             /\ pc' = "read"
                                             /\ UNCHANGED <<stderr, exitCode>>
                                        [] r.result = "RuntimeError" ->
                                             /\ Exit(2, Msg("[error]", <<"Autodetect failed">>))
                                             /\ UNCHANGED paths
                                        [] r.result = "AttributeError" ->
                                             /\ Exit(1, Msg("Traceback", <<"AttributeError">>))
                                             /\ UNCHANGED paths

(* ----------------------------- _iter_lines -------------------------- *)
STDIN == T("-")
InfoLine(p) ==
    [kind |-> "info", ts |-> <<>>, label |-> "[info] Loaded session file:", payload |-> p]
EmptyLine == [kind |-> "empty", ts |-> <<>>, label |-> "", payload |-> <<>>]

\* lines 81 and 85-86: the source is entered; open() may fail
OpenSource ==
    /\ pc = "read" /\ pi <= Len(paths) /\ ~opened
    /\ UNCHANGED <<cmdline, late, sessions, modes, paths, pi, nread, stdinEOF,
                   cur, output_lines, origin>>
    /\ IF paths[pi] = STDIN
       THEN /\ opened' = TRUE
            /\ UNCHANGED <<pc, stdout, stderr, exitCode>>
       ELSE \E found \in BOOLEAN :
              IF found
              THEN /\ opened' = TRUE
                   /\ stdout' = stdout \o <<InfoLine(paths[pi]), EmptyLine>>
                   /\ UNCHANGED <<pc, stderr, exitCode>>
              ELSE /\ Exit(1, Msg("Traceback", <<"FileNotFoundError">>))
                   /\ UNCHANGED <<opened, stdout>>

\* the name _iter_lines yields with each line of the source
SourceName(p) == IF p = STDIN THEN T("<stdin>") ELSE p

\* lines 346-349: the error channel after json.JSONDecodeError
OnInvalidJson(err, errors, src) ==
    IF errors = "stderr" THEN Append(err, Msg("[warn]", src)) ELSE err

\* The loop body of main (lines 340-373) for one line of the current source
ReadLine ==
    /\ pc = "read" /\ pi <= Len(paths) /\ opened
    /\ ~(paths[pi] = STDIN /\ stdinEOF)
    /\ nread < MaxLines
    /\ \E line \in RunLines :
         /\ cur' = line
         /\ nread' = nread + 1
         /\ UNCHANGED <<cmdline, late, sessions, modes, paths, pi, opened, stdinEOF, stdout>>
         /\ CASE line.kind = "blank" ->
                   UNCHANGED <<pc, output_lines, origin, stderr, exitCode>>
              [] line.kind = "malformed" ->
                   /\ stderr' = OnInvalidJson(stderr, cmdline.opt.errors, SourceName(paths[pi]))
                   /\ UNCHANGED <<pc, output_lines, origin, exitCode>>
              [] line.kind = "unparsable" ->
                   /\ Exit(1, Msg("Traceback", <<"RecursionError">>))
                   /\ UNCHANGED <<output_lines, origin>>
              [] line.kind = "json" /\ ~IsDict(line.val) ->
                   UNCHANGED <<pc, output_lines, origin, stderr, exitCode>>
              [] line.kind = "json" /\ IsDict(line.val) ->
                   LET r == ProcessObject(line.val, modes, cmdline.opt.keep_newlines)
                   IN  /\ output_lines' = output_lines \o FormatAll(r.lines)
                       /\ origin' = origin \o OriginAll(r.lines, pi, nread + 1)
                       /\ IF r.raised
                          THEN Exit(1, Msg("Traceback", <<"TypeError">>))
                          ELSE UNCHANGED <<pc, stderr, exitCode>>

\* the current source is exhausted
EndOfSource ==
    /\ pc = "read" /\ pi <= Len(paths) /\ opened
    /\ pi' = pi + 1
    /\ opened' = FALSE
    /\ stdinEOF' = (stdinEOF \/ paths[pi] = STDIN)
    /\ UNCHANGED <<pc, cmdline, late, sessions, modes, paths, nread, cur,
                   output_lines, origin, stdout, stderr, exitCode>>

\* lines 375-381
Finish ==
    /\ pc = "read" /\ pi > Len(paths)
    /\ output_lines' = Truncate(output_lines, cmdline.opt.last)
    /\ stdout' = stdout \o output_lines'
    /\ pc' = "done"
    /\ exitCode' = 0
    /\ UNCHANGED <<cmdline, late, sessions, modes, paths, pi, opened, nread,
                   stdinEOF, cur, origin, stderr>>

Next == ParseArgs \/ OpenSource \/ ReadLine \/ EndOfSource \/ Finish

Spec == Init /\ [][Next]_vars

(* ------------- the rules applied to one record on its own ----------- *)
\* The run has parsed `<mode> <option> -` and holds the first line of
\* standard input, a JSON object, in cur.
InitExtract ==
    /\ pc = "eval"
    /\ cmdline \in [pos1 : {<<t>> : t \in ModeTokens}, pos2 : {<<"-">>},
                    opt : [errors : {"stderr"}, keep_newlines : BOOLEAN, last : {0}]]
    /\ late = TRUE
    /\ sessions = Unread
    /\ modes = ExpandAll(Range(ParsedModes(cmdline)))
    /\ paths = <<STDIN>>
    /\ pi = 1
    /\ opened = TRUE
    /\ nread = 1
    /\ stdinEOF = FALSE
    /\ cur \in {Parsed(r) : r \in ExtractRecords}
    /\ output_lines = <<>>
    /\ origin = <<>>
    /\ stdout = <<>>
    /\ stderr = <<>>
    /\ exitCode = Running

\* lines 354-373 for the record in cur
Evaluate ==
    /\ pc = "eval"
    /\ LET r == ProcessObject(cur.val, modes, cmdline.opt.keep_newlines)
       IN  /\ output_lines' = output_lines \o FormatAll(r.lines)
           /\ origin' = origin \o OriginAll(r.lines, pi, nread)
           /\ IF r.raised
              THEN Exit(1, Msg("Traceback", <<"TypeError">>))
              ELSE /\ pc' = "evaluated"
                   /\ UNCHANGED <<stderr, exitCode>>
    /\ UNCHANGED <<cmdline, late, sessions, modes, paths, pi, opened, nread,
                   stdinEOF, cur, stdout>>

NextExtract == Evaluate

SpecExtract == InitExtract /\ [][NextExtract]_vars

(* ------------------------------ claims ------------------------------ *)
LexLess(a, b) ==
    \E k \in 1..4 : a[k] < b[k] /\ \A m \in 1..(k - 1) : a[m] = b[m]

RankOfLabel(label) ==
    IF label \in {"read", "write", "edit"} THEN RuleRank["file"] ELSE RuleRank[label]

\* C1: the collected events are in the order of their input source, then
\* of their line, then of the rule (exec, thinking, web, fetch, file), then
\* of the content item; each event carries the label of the rule it is
\* recorded under.
C1_EncounterOrder ==
    /\ \A i, j \in DOMAIN origin : i < j => LexLess(origin[i], origin[j])
    /\ Len(output_lines) <= Len(origin)
    /\ \A i \in DOMAIN output_lines :
         RankOfLabel(output_lines[i].label)
           = origin[Len(origin) - Len(output_lines) + i][3]
    /\ pc = "read" => Len(output_lines) = Len(origin)

\* C1's case: events of two sources, and in one record an exec event of a
\* later content item ahead of a thinking event of an earlier one
C1_Witness ==
    /\ pc = "done" /\ exitCode = 0
    /\ \E i, j \in DOMAIN origin : origin[i][1] = 1 /\ origin[j][1] = 2
    /\ \E i, j \in DOMAIN origin :
         /\ i < j /\ origin[i][1] = origin[j][1] /\ origin[i][2] = origin[j][2]
         /\ origin[i][3] = RuleRank["exec"] /\ origin[j][3] = RuleRank["thinking"]
         /\ origin[i][4] > origin[j][4]
         /\ stdout[Len(stdout) - Len(origin) + i].label = "exec"
         /\ stdout[Len(stdout) - Len(origin) + j].label = "thinking"

Min(a, b) == IF a < b THEN a ELSE b

\* C2: truncation is applied once, to the whole collected list E: what is
\* printed is the last min(N, |E|) entries of E in their order when N > 0,
\* and all of E when N <= 0.
C2_LastN ==
    [][(pc = "read" /\ pc' = "done" /\ exitCode' = 0) =>
         LET E == output_lines
             N == cmdline.opt.last
             k == IF N > 0 THEN Min(N, Len(E)) ELSE Len(E)
             printed == SubSeq(stdout', Len(stdout) + 1, Len(stdout'))
         IN  printed = [i \in 1..k |-> E[Len(E) - k + i]]]_vars

\* C2's case: three events collected, --last 2, two printed
C2_Witness ==
    /\ pc = "done" /\ exitCode = 0
    /\ cmdline.opt.last = 2 /\ Len(origin) = 3 /\ Len(output_lines) = 2
    /\ stdout[Len(stdout)].label = "read"

\* a line that json.loads does not turn into a value, or turns into a value
\* that is no object
BadLine(line) ==
    \/ line.kind \in {"malformed", "unparsable"}
    \/ (line.kind = "json" /\ ~IsDict(line.val))

\* the step of a bad line: nothing is collected or printed, the run stays in
\* the loop at the same source, and [warn] reaches the error channel exactly
\* for a parse failure under --errors stderr
Skipped ==
    /\ output_lines' = output_lines /\ origin' = origin /\ stdout' = stdout
    /\ pc' = "read" /\ exitCode' = Running /\ pi' = pi /\ opened' = opened
    /\ stderr' = IF cur'.kind # "json" /\ cmdline.opt.errors = "stderr"
                 THEN Append(stderr, Msg("[warn]", SourceName(paths[pi])))
                 ELSE stderr

\* C4: a line that fails to parse as JSON, or parses to a value that is no
\* object, adds no event and is never fatal: the run goes on with the next
\* line, and a [warn] message reaches the error channel exactly for a parse
\* failure under --errors stderr.
C4_BadLineSkipped ==
    [][(pc = "read" /\ nread' = nread + 1 /\ BadLine(cur')) => Skipped]_vars

\* The same for the lines on which json.loads raises JSONDecodeError or
\* returns a value that is no object: this much holds.
SkippedWhenDecodeError ==
    [][(pc = "read" /\ nread' = nread + 1 /\ BadLine(cur') /\ cur'.kind # "unparsable")
         => Skipped]_vars

\* C3: evaluating the active rules on a parsed object never raises: no
\* traceback reaches the error channel and the run is not aborted.
C3_NeverRaises ==
    /\ exitCode # 1
    /\ \A i \in DOMAIN stderr : stderr[i].tag # "Traceback"

\* the session-file lookup on sessions.json fails at one of its steps
LookupFails(js) ==
    \/ js.kind \in {"missing", "malformed"}
    \/ /\ js.kind = "json"
       /\ \/ ~IsDict(js.val)
          \/ MainKey \notin DOMAIN js.val.v
          \/ ~IsDict(js.val.v[MainKey])
          \/ "sessionFile" \notin DOMAIN js.val.v[MainKey].v
          \/ ~IsStr(js.val.v[MainKey].v["sessionFile"])
          \/ Strip(js.val.v[MainKey].v["sessionFile"].v) = <<>>

\* C5: with no input paths, a failure at any step of the session-file
\* lookup ends the run with an [error] message on the error channel, exit
\* code 2 and no output.
C5_LookupFailureIsConfigError ==
    (sessions # Unread /\ LookupFails(sessions)) =>
        /\ pc = "done" /\ exitCode = 2
        /\ stderr # <<>> /\ stderr[Len(stderr)].tag = "[error]"
        /\ stdout = <<>>

\* the content items of the record in cur, when it has a content list
ContentOf(obj) == _safe_get(obj, <<"message", "content">>).v

IsNonEmptyStr(x) == IsStr(x) /\ x.v # <<>>
FileArgs(item) ==
    IF "arguments" \in DOMAIN item.v /\ IsDict(item.v["arguments"])
    THEN item.v["arguments"] ELSE EmptyObj
HasField(args, key) == key \in DOMAIN args.v /\ IsNonEmptyStr(args.v[key])
FirstField(args) ==
    LET ks == {k \in 1..Len(PathKeys) : HasField(args, PathKeys[k])}
    IN  PathKeys[CHOOSE k \in ks : \A m \in ks : k <= m]

IsFileItem(item) ==
    /\ IsDict(item) /\ "type" \in DOMAIN item.v /\ item.v["type"] = S("toolCall")
    /\ "name" \in DOMAIN item.v /\ item.v["name"] \in FileActions

\* C6: for every toolCall item named read, write or edit the file rule emits
\* exactly one event, labelled with that name, whose payload is the trimmed
\* value of the first of path, file_path, filepath, filename, target that is
\* present and non-empty, and is "UNKNOWN_PATH" only when none of them is.
\* (Stated of a run with the file rule alone, so that output_lines holds the
\* file events only.)
C6_FirstPresentPath ==
    (pc = "evaluated" /\ modes = {"file"} /\ Get(cur.val, "type") = S("message")
       /\ IsList(_safe_get(cur.val, <<"message", "content">>))) =>
      LET items == ContentOf(cur.val)
          idx == {i \in DOMAIN items : IsFileItem(items[i])}
      IN  /\ Len(output_lines) = Cardinality(idx)
          /\ \A n \in DOMAIN output_lines :
               LET item == items[origin[n][4]]
                   args == FileArgs(item)
               IN  /\ origin[n][4] \in idx
                   /\ output_lines[n].label = item.v["name"].v[1]
                   /\ IF \E k \in DOMAIN PathKeys : HasField(args, PathKeys[k])
                      THEN output_lines[n].payload = Strip(args.v[FirstField(args)].v)
                      ELSE output_lines[n].payload = UNKNOWN_PATH

\* C7: every emitted event has a payload that is not empty and, without
\* --keep-newlines, holds no newline and no carriage return.
C7_SingleLinePayload ==
    \A n \in DOMAIN output_lines :
        /\ output_lines[n].payload # <<>>
        /\ ~cmdline.opt.keep_newlines =>
             \A c \in DOMAIN output_lines[n].payload :
                 output_lines[n].payload[c] \notin {"LF", "CR"}

\* the command line is mode tokens followed by paths, with no option between
ModesThenPaths(cl, k) ==
    /\ cl.pos2 = <<>>
    /\ k \in 1..(Len(cl.pos1) - 1)
    /\ \A i \in 1..k : cl.pos1[i] \in ModeTokens
    /\ \A i \in (k + 1)..Len(cl.pos1) : cl.pos1[i] \in PathTokens

\* C8: given mode tokens followed by input paths, the active mode set is
\* those tokens (all expanded), the inputs are those paths in their order,
\* and the session file is not looked up.
C8_ModesThenPaths ==
    \A k \in 1..MaxArgs :
        (pc # "start" /\ ModesThenPaths(cmdline, k)) =>
            /\ modes = ExpandAll({cmdline.pos1[i] : i \in 1..k})
            /\ paths = [i \in 1..(Len(cmdline.pos1) - k) |-> T(cmdline.pos1[k + i])]
            /\ sessions = Unread

\* C9: on a run that ends with exit code 0, standard output is the retained
\* events, one entry each, in collection order, and nothing else.
C9_StdoutIsEvents ==
    (pc = "done" /\ exitCode = 0) => stdout = output_lines

TopTs(obj) == IF "timestamp" \in DOMAIN obj.v THEN obj.v["timestamp"] ELSE Absent
NestedTs(obj) ==
    IF /\ "message" \in DOMAIN obj.v /\ IsDict(obj.v["message"])
       /\ "timestamp" \in DOMAIN obj.v["message"].v
    THEN obj.v["message"].v["timestamp"] ELSE Absent

\* C10 as stated: the timestamp of every event is the top-level timestamp
\* when that field is present, otherwise message.timestamp when that is
\* present, otherwise "UNKNOWN_TIME".
C10_TimestampWhenPresent ==
    pc = "evaluated" =>
      \A n \in DOMAIN output_lines :
        LET top == TopTs(cur.val)
            nested == NestedTs(cur.val)
        IN  /\ IsStr(top) => output_lines[n].ts = top.v
            /\ (top = Absent /\ IsStr(nested)) => output_lines[n].ts = nested.v
            /\ (top = Absent /\ nested = Absent) => output_lines[n].ts = <<"UNKNOWN_TIME">>

\* a value that is present and not null, false, 0, "", [] or {}
NonEmptyValue(x) ==
    /\ x # Absent /\ x # None
    /\ x \notin {JBool(FALSE), JNum(0), JStr(<<>>), JArr(<<>>), EmptyObj}

\* C10, amended: the timestamp of every event is the text of the top-level
\* timestamp when that field is present and is not null, false, 0, "", [] or
\* {}; otherwise the text of message.timestamp when that is present, not null
\* and not ""; otherwise "UNKNOWN_TIME".  A string is its own text.
C10_TimestampWhenNonEmpty ==
    pc = "evaluated" =>
      \A n \in DOMAIN output_lines :
        LET top == TopTs(cur.val)
            nested == NestedTs(cur.val)
        IN  output_lines[n].ts =
              IF NonEmptyValue(top) THEN PyStr(top)
              ELSE IF nested \notin {Absent, None, JStr(<<>>)} THEN PyStr(nested)
              ELSE <<"UNKNOWN_TIME">>

\* C10's case: an event of a record whose top-level timestamp is "" and
\* whose message.timestamp is "T2"
C10_Witness ==
    /\ pc = "evaluated" /\ output_lines # <<>>
    /\ TopTs(cur.val) = JStr(<<>>) /\ NestedTs(cur.val) = S("T2")
    /\ output_lines[1].ts = <<"T2">>

====
